---- MODULE Spec2Model ----
(***************************************************************************)
(* The Generative Teaching Network notebook (src/unnamed/part_000) as a    *)
(* sequential program: the set-up cell, the bi-level training loop and the *)
(* architecture search that follows it.                                    *)
(*                                                                         *)
(* In the notebook's state machine a tensor is what the control logic and  *)
(* the autodiff graph observe of it: the set of graph leaves it depends    *)
(* on, the object it belongs to, and, for every tensor handed to the       *)
(* teacher optimizer, the number of updates applied to it.  The arithmetic *)
(* of one student's unrolled SGD is modelled on scalars in SpecSgd, the     *)
(* shapes of a batch on its way through Teacher.forward in SpecShape and   *)
(* through Learner.forward in SpecLearnerShape.  SpecTrain is the training *)
(* cell alone, with more outer iterations than Spec affords.               *)
(* Hyper-parameters the notebook sets to 32, 10, 128 ... are scaled down.  *)
(*                                                                         *)
(* The StyleGAN2 components notebook is modelled in two further            *)
(* specifications: SpecConv, ModulatedConv2d with its two forward methods  *)
(* on integer tensors, and SpecPathLength, the path-length cell.           *)
(***************************************************************************)
EXTENDS Integers, Sequences, FiniteSets, TLC

\* ---------------------------------------------------------------- bounds
MaxOuterIterations == 2   \* outer_loop_iterations ranges over 1..MaxOuterIterations
MaxTrainLen == 2          \* len(train_loader) ranges over 1..MaxTrainLen
MaxValLen == 2            \* len(val_loader) ranges over 1..MaxValLen
InnerLoopBound == 2       \* inner steps per student (32 in the notebook)
NumArchBound == 2         \* architecture-search trials (10 in the notebook)
NumClassesBound == 2      \* classes (10 in the notebook)
BatchBound == 3           \* synthetic batch size (128 in the notebook)
MaxCorrect == 1           \* correct predictions counted over a loader: 0..MaxCorrect
SgdSteps == 3             \* SpecSgd: steps of one student
GradBound == 1            \* SpecSgd: gradients range over -GradBound..GradBound
MaxLr == 1                \* SpecSgd: learning rate ranges over 0..MaxLr
MaxMomentum == 1          \* SpecSgd: momentum ranges over 0..MaxMomentum
PlValueBound == 2         \* SpecPathLength: entries of w and of the random images
ShapeBatchBound == 3      \* SpecShape: batch sizes 1..ShapeBatchBound
NoiseSizeBound == 2       \* SpecShape: noise_size ranges over 1..NoiseSizeBound
ImgSizeBound == 2         \* SpecShape: img_size ranges over 1..ImgSizeBound
ConvBatchBound == 2       \* SpecConv: batch sizes 1..ConvBatchBound
LatentBound == 1          \* SpecConv: entries of w range over -LatentBound..LatentBound
LearnerImgSizeBound == 14 \* SpecLearnerShape: img_size ranges over 1..LearnerImgSizeBound

\* ------------------------------------------------------ hyper-parameters
inner_loop_iterations == InnerLoopBound
num_classes == NumClassesBound
inner_loop_batch_size == BatchBound
num_architectures == NumArchBound

\* np.random.randint(low, high): an integer of [low, high)
np_random_randint(low, high) == low .. (high - 1)

\* Learner(): randint(32, 64) and randint(64, 128), scaled to [2,4) and [2,3);
\* the search samples from [1, 64) and [1, 128), scaled to [1,4) and [1,3).
Conv1Low == 2
Conv1High == 4
Conv2Low == 2
Conv2High == 3

Grads == (0 - GradBound) .. GradBound
LrValues == 0 .. MaxLr
MomentumValues == 0 .. MaxMomentum

RECURSIVE SumSeq(_)
SumSeq(q) == IF q = <<>> THEN 0 ELSE q[1] + SumSeq(Tail(q))

\* the inner product of two vectors
Dot(u, v) == SumSeq([k \in 1 .. Len(u) |-> u[k] * v[k]])

\* ------------------------------------------------------ tensors and leaves
\* list(teacher.parameters()): the weights the teacher's forward uses ...
TeacherForwardParams ==
    {"fc1", "bn_fc1", "fc2", "bn_fc2", "conv1", "bn_conv1", "conv2", "bn_conv2"}
\* ... and teacher.learner_optim_params, which forward never reads
TeacherParameters == TeacherForwardParams \cup {"learner_optim_params"}

AllTensors == TeacherParameters \cup {"curriculum"}

\* params_to_train, the tensors handed to optim.Adam
ParamsToTrain(uc) == IF uc THEN TeacherParameters \cup {"curriculum"} ELSE TeacherParameters

\* variant: the modulus is the batch size
LabelTensor_ModBatch == [k \in 1 .. inner_loop_batch_size |-> (k - 1) % inner_loop_batch_size]

\* label = torch.tensor([x % num_classes for x in range(inner_loop_batch_size)])
\* (index k of the sequence is element k - 1 of the tensor)
LabelTensor == [k \in 1 .. inner_loop_batch_size |-> (k - 1) % num_classes]

VARIABLES
    pc,                     \* position in the notebook
    outer_loop_iterations,  \* hyper-parameter, fixed at set-up
    train_len,              \* len(train_loader)
    val_len,                \* len(val_loader)
    use_curriculum,         \* hyper-parameter, fixed at set-up
    it,                     \* index of the current outer iteration (-1 before the first)
    step,                   \* inner steps done for the current student
    val_pos,                \* batches already taken from val_iterator
    version,                \* tensor name -> number of optimizer updates applied to it
    grad,                   \* tensor name -> its .grad: none, or the iterations summed in it
    label,                  \* the label tensor
    learner,                \* the Learner object of the current iteration or trial
    trajectory,             \* flearner's parameter snapshots, oldest first
    diffopt,                \* the differentiable optimizer's state
    loss,                   \* the python variable loss
    inner_losses,           \* the python list inner_losses
    i,                      \* index of the current search trial (-1 before the first)
    best_accuracy,          \* search: best validation accuracy so far
    filter_counts,          \* search: <<>> while unassigned, else <<conv1, conv2>>
    accuracy,               \* the python variable accuracy
    trials,                 \* history: the pair and validation accuracy of every trial
    report,                 \* what has been printed as final result
    error,                  \* the exception that ended the run, "none" otherwise
    hist,                   \* history of calls made, for the properties below
    conv_filters,           \* search: the python variables <<conv1_filters, conv2_filters>>
    teacher,                \* the teacher module's mode and batch-norm buffers
    vis_row,                \* visualization: rows of the grid already pasted
    sgd,                    \* SpecSgd: one student's parameter under unrolled SGD
    mc,                     \* SpecConv: a ModulatedConv2d, its inputs and outputs
    pl,                     \* SpecPathLength: the path-length regularization cell
    shp                     \* SpecShape: a batch's shape on its way through the teacher

vars == <<pc, outer_loop_iterations, train_len, val_len, use_curriculum, it, step,
          val_pos, version, grad, label, learner, trajectory, diffopt, loss,
          inner_losses, i, best_accuracy, filter_counts, accuracy, trials, report,
          error, hist, conv_filters, teacher, vis_row, sgd, mc, pl, shp>>

cfgVars == <<outer_loop_iterations, train_len, val_len, use_curriculum, sgd, mc, pl, shp>>
searchVars == <<i, best_accuracy, filter_counts, trials, conv_filters, vis_row>>

NoOwner == <<"none", 0>>
NoLoss == [src |-> "none", snap |-> 0, deps |-> {}, owner |-> NoOwner]
NoGrad == [none |-> TRUE, from |-> {}]
NoTested == [owner |-> NoOwner, pair |-> <<>>]
NoSgd == [lr |-> 0, momentum |-> 0, ps |-> <<>>, has_buf |-> FALSE, buf |-> 0,
          gs |-> <<>>, ds |-> <<>>]

\* ------------------------------------------------------------- set-up
\* the state the set-up cells leave
SetUp(o, tl, vl, uc) ==
    /\ outer_loop_iterations = o
    /\ train_len = tl
    /\ val_len = vl
    /\ use_curriculum = uc
    /\ it = -1
    /\ step = 0
    /\ val_pos = 0
    /\ version = [x \in AllTensors |-> 0]
    /\ grad = [x \in AllTensors |-> NoGrad]
    /\ label = LabelTensor
    /\ learner = [conv1_filters |-> 0, conv2_filters |-> 0, params |-> "none", owner |-> NoOwner]
    /\ trajectory = <<>>
    /\ diffopt = [steps |-> 0, owner |-> NoOwner]
    /\ loss = NoLoss
    /\ inner_losses = <<>>
    /\ i = -1
    /\ best_accuracy = 0
    /\ filter_counts = <<>>
    /\ accuracy = 0
    /\ trials = <<>>
    /\ report = [train |-> FALSE, search |-> <<>>, search_tested |-> NoTested]
    /\ error = "none"
    /\ hist = [backward |-> <<>>, step |-> <<>>, reads |-> {}, labels |-> {},
               forwards |-> {}]
    /\ conv_filters = <<>>
    /\ teacher = [training |-> TRUE, num_batches_tracked |-> 0]
    /\ vis_row = 0

\* the notebook before its training cell, for every configuration within the bounds
Init ==
    /\ pc = "train_head"
    /\ \E o \in 1 .. MaxOuterIterations, tl \in 1 .. MaxTrainLen, vl \in 1 .. MaxValLen,
          uc \in BOOLEAN : SetUp(o, tl, vl, uc)
    /\ sgd = NoSgd
    /\ mc = <<>>
    /\ pl = <<>>
    /\ shp = <<>>

\* ------------------------------------------------------ model objects
\* the default of Learner's arguments num_conv1 and num_conv2
None == 0 - 1

\* variant: the supplied widths are ignored
LearnerWidths_AlwaysRandom(num_conv1, num_conv2) ==
    np_random_randint(Conv1Low, Conv1High) \X np_random_randint(Conv2Low, Conv2High)

\* Learner.__init__, lines 337-344: each width is the argument when one is
\* supplied, else drawn from its range; the pairs <<conv1_filters, conv2_filters>>
\* a construction can end with
LearnerWidths(num_conv1, num_conv2) ==
    (IF num_conv1 = None THEN np_random_randint(Conv1Low, Conv1High) ELSE {num_conv1})
    \X (IF num_conv2 = None THEN np_random_randint(Conv2Low, Conv2High) ELSE {num_conv2})

\* Learner(num_conv1, num_conv2): a fresh module with freshly initialised
\* parameters
Learner(conv1_filters, conv2_filters, owner) ==
    [conv1_filters |-> conv1_filters, conv2_filters |-> conv2_filters,
     params |-> "init", owner |-> owner]

\* higher.innerloop_ctx(learner, inner_optim, override=...): flearner starts from
\* a copy of the learner's parameters (snapshot 0), diffopt from an empty
\* optimizer state.  hp is the version of the lr / momentum tensors a snapshot
\* was computed with (-1: none).
InitialSnapshot(l) ==
    [t |-> 0, deps |-> {"learner_init"}, owner |-> l.owner, hp |-> -1]

\* variant: the inner optimizer of the previous student is kept
InitialDiffopt_Reused(l) == diffopt

InitialDiffopt(l) == [steps |-> 0, owner |-> l.owner]

\* teacher(z_vec, one_hot): the graph leaves the synthetic batch depends on
TeacherOutputDeps(uc) ==
    TeacherForwardParams \cup {IF uc THEN "curriculum" ELSE "noise"} \cup {"label"}

\* variant: the curriculum is read one slice ahead
NoiseInput_NextSlice(uc, s, bn) ==
    IF uc THEN <<"curriculum", version["curriculum"], (s + 1) % inner_loop_iterations>>
    ELSE <<"randn", bn.num_batches_tracked>>

\* the first argument of teacher(z_vec, one_hot) at an inner step: a row of
\* the curriculum as it stands, or noise drawn for this call
NoiseInput(uc, s, bn) ==
    IF uc THEN <<"curriculum", version["curriculum"], s>>
    ELSE <<"randn", bn.num_batches_tracked>>

\* variant: the batch norms normalise with their running statistics (eval mode)
TeacherForward_RunningStats(weights, z, one_hot, bn) ==
    [image |-> [weights |-> weights, z |-> z, one_hot |-> one_hot,
                stats |-> <<"running", bn.num_batches_tracked>>],
     target |-> one_hot]

\* Teacher.forward, lines 270-301: the image batch is computed from the
\* weights and the two inputs; a batch norm in training mode normalises with
\* the statistics of the batch itself, in eval mode with its running
\* statistics, which every training-mode call has moved; the target is the
\* second input
TeacherForward(weights, z, one_hot, bn) ==
    [image |-> [weights |-> weights, z |-> z, one_hot |-> one_hot,
                stats |-> IF bn.training THEN <<"batch">>
                          ELSE <<"running", bn.num_batches_tracked>>],
     target |-> one_hot]

\* a call teacher(z_vec, one_hot) as the notebook makes it at step s, on a
\* teacher module in state bn, and the state it leaves the module in
TeacherCallOn(bn, by, s) ==
    LET weights == [x \in TeacherForwardParams |-> version[x]]
        z == NoiseInput(use_curriculum, s, bn)
        out == TeacherForward(weights, z, label, bn)
    IN [call |-> [by |-> by, step |-> s, n |-> bn.num_batches_tracked,
                  weights |-> weights, z |-> z, one_hot |-> label, out |-> out],
        teacher |-> [bn EXCEPT !.num_batches_tracked = IF bn.training THEN @ + 1 ELSE @]]

TeacherCall(by, s) == TeacherCallOn(teacher, by, s)

\* variant: the student is trained on the real batch
InnerBatchDeps_RealData(uc) == {"real_data"}

\* the batch the student is trained on at an inner step: teacher_output, label
InnerBatchDeps(uc) == TeacherOutputDeps(uc)

\* variant: lr and momentum reach the optimizer as plain numbers (.item()) only
StepDeps_NoOverride(prev, uc) == prev.deps \cup InnerBatchDeps(uc)

\* the leaves of the snapshot a student update produces: those of the previous
\* snapshot, of the inner loss (synthetic batch, labels) and the overriding
\* lr / momentum tensors, which are views of teacher.learner_optim_params
StepDeps(prev, uc) ==
    prev.deps \cup InnerBatchDeps(uc) \cup {"learner_optim_params"}

\* variant: the learning rate decays with the step index
DiffoptStep_DecayingLr(prev, opt, uc, hp) ==
    [snap |-> [t |-> prev.t + 1, deps |-> StepDeps(prev, uc), owner |-> prev.owner,
               hp |-> hp + prev.t],
     opt |-> [steps |-> opt.steps + 1, owner |-> opt.owner]]

\* diffopt.step(loss): a new snapshot computed from the previous one
DiffoptStep(prev, opt, uc, hp) ==
    [snap |-> [t |-> prev.t + 1, deps |-> StepDeps(prev, uc), owner |-> prev.owner,
               hp |-> hp],
     opt |-> [steps |-> opt.steps + 1, owner |-> opt.owner]]

\* variant: the update overwrites the current parameters, as plain SGD does
UpdateParams_InPlace(traj, snap) ==
    IF traj = <<>> THEN <<snap>> ELSE [traj EXCEPT ![Len(traj)] = snap]

\* fmodel.update_params with track_higher_grads: the new snapshot is appended,
\* the earlier ones stay
UpdateParams(traj, snap) == Append(traj, snap)

Last(s) == s[Len(s)]

\* one pass of the body of "for step in range(inner_loop_iterations)" up to and
\* including diffopt.step(loss), shared by the training loop and the search
UnrolledStep(owner) ==
    LET prev == Last(trajectory)
        res == DiffoptStep(prev, diffopt, use_curriculum, version["learner_optim_params"])
    IN /\ trajectory' = UpdateParams(trajectory, res.snap)
       /\ diffopt' = res.opt
       /\ loss' = [src |-> "synthetic", snap |-> Len(trajectory),
                   deps |-> prev.deps \cup InnerBatchDeps(use_curriculum),
                   owner |-> owner]
       /\ hist' = [hist EXCEPT !.reads = @ \cup {[by |-> owner, snap |-> prev.owner,
                                                   opt |-> diffopt.owner]},
                                !.labels = @ \cup {label},
                                !.forwards = @ \cup {TeacherCall(owner, step).call}]
       /\ teacher' = TeacherCall(owner, step).teacher
       /\ step' = step + 1

\* variant: the gradients of the previous iteration are kept
ZeroGrad_Keeps(g, uc) == g

\* optimizer_teacher.zero_grad(): the .grad of every tensor handed to the
\* optimizer is cleared
ZeroGrad(g, uc) == [x \in AllTensors |-> IF x \in ParamsToTrain(uc) THEN NoGrad ELSE g[x]]

\* ------------------------------------------------------ training loop
\* lines 462-478: the loop header yields the next batch; zero_grad; a new
\* Learner with random widths, a new inner optimizer, the innerloop context
BeginOuterIteration ==
    /\ pc = "train_head"
    /\ it + 1 < train_len
    /\ it' = it + 1
    /\ grad' = ZeroGrad(grad, use_curriculum)
    /\ \E w \in LearnerWidths(None, None) :
          learner' = Learner(w[1], w[2], <<"train", it + 1>>)
    /\ trajectory' = <<InitialSnapshot(learner')>>
    /\ diffopt' = InitialDiffopt(learner')
    /\ inner_losses' = <<>>
    /\ step' = 0
    /\ teacher' = [teacher EXCEPT !.training = TRUE]
    /\ pc' = "inner"
    /\ UNCHANGED <<cfgVars, searchVars, val_pos, version, label, loss,
                   accuracy, report, error, hist>>

\* the loop header when train_loader is exhausted: the cell ends
TrainLoaderExhausted ==
    /\ pc = "train_head"
    /\ it + 1 >= train_len
    /\ pc' = "search_head"
    /\ UNCHANGED <<cfgVars, teacher, searchVars, it, step, val_pos, version, grad,
                   label, learner, trajectory, diffopt, loss, inner_losses, accuracy,
                   report, error, hist>>

\* lines 479-513: one inner step on a teacher-synthesized batch
InnerStep ==
    /\ pc = "inner"
    /\ step < inner_loop_iterations
    /\ UnrolledStep(<<"train", it>>)
    /\ inner_losses' = Append(inner_losses, step)
    /\ pc' = IF step + 1 < inner_loop_iterations THEN "inner" ELSE "real_eval"
    /\ UNCHANGED <<cfgVars, searchVars, it, val_pos, version, grad, label,
                   learner, accuracy, report, error>>

\* variant: the real batch is also used for one more diffopt.step
EvalRealData_ExtraStep ==
    /\ pc = "real_eval"
    /\ trajectory' = UpdateParams(trajectory,
            DiffoptStep(Last(trajectory), diffopt, use_curriculum,
                        version["learner_optim_params"]).snap)
    /\ diffopt' = [diffopt EXCEPT !.steps = @ + 1]
    /\ loss' = [src |-> "real_data", snap |-> Len(trajectory),
                deps |-> Last(trajectory).deps \cup {"real_data"},
                owner |-> <<"train", it>>]
    /\ pc' = "val_eval"
    /\ UNCHANGED <<cfgVars, teacher, searchVars, it, step, val_pos, version, grad,
                   label, learner, inner_losses, accuracy, report, error, hist>>

\* lines 515-525: the final snapshot's loss on the training batch real_data
EvalRealData ==
    /\ pc = "real_eval"
    /\ loss' = [src |-> "real_data", snap |-> Len(trajectory),
                deps |-> Last(trajectory).deps \cup {"real_data"},
                owner |-> <<"train", it>>]
    /\ pc' = "val_eval"
    /\ UNCHANGED <<cfgVars, teacher, searchVars, it, step, val_pos, version, grad,
                   label, learner, trajectory, diffopt, inner_losses, accuracy,
                   report, error, hist>>

\* variant: the loss is computed again on the validation batch
EvalValidation_OverwritesLoss ==
    /\ pc = "val_eval"
    /\ IF val_pos < val_len
       THEN /\ val_pos' = val_pos + 1
            /\ \E correct \in 0 .. MaxCorrect : accuracy' = correct
            /\ loss' = [src |-> "validation", snap |-> Len(trajectory),
                        deps |-> Last(trajectory).deps \cup {"val_data"},
                        owner |-> <<"train", it>>]
            /\ pc' = "budget"
            /\ error' = error
       ELSE /\ error' = "StopIteration"
            /\ pc' = "aborted"
            /\ UNCHANGED <<val_pos, accuracy, loss>>
    /\ UNCHANGED <<cfgVars, teacher, searchVars, it, step, version, grad, label,
                   learner, trajectory, diffopt, inner_losses, report, hist>>

\* variant: an exhausted val_iterator is re-created and the batch fetched again
EvalValidation_Restart ==
    /\ pc = "val_eval"
    /\ val_pos' = IF val_pos < val_len THEN val_pos + 1 ELSE 1
    /\ \E correct \in 0 .. MaxCorrect : accuracy' = correct
    /\ pc' = "budget"
    /\ UNCHANGED <<cfgVars, teacher, searchVars, it, step, version, grad, label,
                   learner, trajectory, diffopt, loss, inner_losses, report, hist,
                   error>>

\* lines 527-534: next(val_iterator) raises StopIteration once the iterator,
\* created once in the set-up cell, is exhausted
EvalValidation ==
    /\ pc = "val_eval"
    /\ IF val_pos < val_len
       THEN /\ val_pos' = val_pos + 1
            /\ \E correct \in 0 .. MaxCorrect : accuracy' = correct
            /\ pc' = "budget"
            /\ error' = error
       ELSE /\ error' = "StopIteration"
            /\ pc' = "aborted"
            /\ UNCHANGED <<val_pos, accuracy>>
    /\ UNCHANGED <<cfgVars, teacher, searchVars, it, step, version, grad, label,
                   learner, trajectory, diffopt, loss, inner_losses, report, hist>>

\* variant: the budget iteration reports and goes on with the next batch
FinalReport_NoBreak ==
    /\ pc = "budget"
    /\ it = outer_loop_iterations - 1
    /\ \E correct \in 0 .. MaxCorrect : accuracy' = correct
    /\ report' = [report EXCEPT !.train = TRUE]
    /\ pc' = "train_head"
    /\ UNCHANGED <<cfgVars, teacher, searchVars, it, step, val_pos, version, grad,
                   label, learner, trajectory, diffopt, loss, inner_losses, error, hist>>

\* lines 536-554: the budget iteration reports the test accuracy and breaks
FinalReport ==
    /\ pc = "budget"
    /\ it = outer_loop_iterations - 1
    /\ \E correct \in 0 .. MaxCorrect : accuracy' = correct
    /\ report' = [report EXCEPT !.train = TRUE]
    /\ pc' = "search_head"
    /\ UNCHANGED <<cfgVars, teacher, searchVars, it, step, val_pos, version, grad,
                   label, learner, trajectory, diffopt, loss, inner_losses, error, hist>>

\* variant: the budget iteration does not break before loss.backward()
Backward_NoBudgetCheck ==
    /\ pc = "budget"
    /\ grad' = [x \in AllTensors |->
                  IF x \in loss.deps THEN [none |-> FALSE, from |-> grad[x].from \cup {it}]
                  ELSE grad[x]]
    /\ hist' = [hist EXCEPT !.backward = Append(@, it)]
    /\ pc' = "teacher_step"
    /\ UNCHANGED <<cfgVars, teacher, searchVars, it, step, val_pos, version, label,
                   learner, trajectory, diffopt, loss, inner_losses, accuracy,
                   report, error>>

\* variant: the iteration continues with the next batch right after backward
Backward_SkipsTeacherStep ==
    /\ pc = "budget"
    /\ it # outer_loop_iterations - 1
    /\ grad' = [x \in AllTensors |->
                  IF x \in loss.deps THEN [none |-> FALSE, from |-> grad[x].from \cup {it}]
                  ELSE grad[x]]
    /\ hist' = [hist EXCEPT !.backward = Append(@, it)]
    /\ pc' = "train_head"
    /\ UNCHANGED <<cfgVars, teacher, searchVars, it, step, val_pos, version, label,
                   learner, trajectory, diffopt, loss, inner_losses, accuracy,
                   report, error>>

\* loss.backward(): every leaf of the loss among the optimizer's tensors
\* accumulates this iteration's gradient
Backward ==
    /\ pc = "budget"
    /\ it # outer_loop_iterations - 1
    /\ grad' = [x \in AllTensors |->
                  IF x \in loss.deps THEN [none |-> FALSE, from |-> grad[x].from \cup {it}]
                  ELSE grad[x]]
    /\ hist' = [hist EXCEPT !.backward = Append(@, it)]
    /\ pc' = "teacher_step"
    /\ UNCHANGED <<cfgVars, teacher, searchVars, it, step, val_pos, version, label,
                   learner, trajectory, diffopt, loss, inner_losses, accuracy,
                   report, error>>

\* optimizer_teacher.step(): Adam updates every tensor of params_to_train that
\* has a gradient; its value moves to the next version
OptimizerTeacherStep ==
    /\ pc = "teacher_step"
    /\ version' = [x \in AllTensors |->
                     IF x \in ParamsToTrain(use_curriculum) /\ ~grad[x].none
                     THEN version[x] + 1 ELSE version[x]]
    /\ hist' = [hist EXCEPT !.step = Append(@, it)]
    /\ pc' = "train_head"
    /\ UNCHANGED <<cfgVars, teacher, searchVars, it, step, val_pos, grad, label, learner,
                   trajectory, diffopt, loss, inner_losses, accuracy, report, error>>

TrainNext ==
    \/ BeginOuterIteration
    \/ TrainLoaderExhausted
    \/ InnerStep
    \/ EvalRealData
    \/ EvalValidation
    \/ FinalReport
    \/ Backward
    \/ OptimizerTeacherStep

\* ------------------------------------------------------ architecture search
\* lines 597-608: the loop header, a random pair of widths, a Learner pinned to
\* it, a new inner optimizer and innerloop context
SampleArchitecture ==
    /\ pc = "search_head"
    /\ i + 1 < num_architectures
    /\ i' = i + 1
    /\ \E c1 \in np_random_randint(1, Conv1High), c2 \in np_random_randint(1, Conv2High) :
          /\ conv_filters' = <<c1, c2>>
          /\ \E w \in LearnerWidths(c1, c2) :
                learner' = Learner(w[1], w[2], <<"search", i + 1>>)
    /\ trajectory' = <<InitialSnapshot(learner')>>
    /\ diffopt' = InitialDiffopt(learner')
    /\ step' = 0
    /\ pc' = "search_inner"
    /\ UNCHANGED <<cfgVars, teacher, it, val_pos, version, grad, label, loss,
                   inner_losses, best_accuracy, filter_counts, accuracy, trials,
                   report, error, hist, vis_row>>

\* lines 609-625: one inner step of the trial's student
SearchInnerStep ==
    /\ pc = "search_inner"
    /\ step < inner_loop_iterations
    /\ UnrolledStep(<<"search", i>>)
    /\ pc' = IF step + 1 < inner_loop_iterations THEN "search_inner" ELSE "search_val"
    /\ UNCHANGED <<cfgVars, searchVars, it, val_pos, version, grad, label,
                   learner, inner_losses, accuracy, report, error>>

\* variant: an equal accuracy replaces the best pair too
BetterThanBest_OrEqual(acc, best) == acc >= best

\* lines 636-638: the best pair so far is replaced by a strictly better one.
\* Accuracies of one loader share their denominator and are kept as the count
\* of correct predictions.
BetterThanBest(acc, best) == acc > best

\* variant: the trial ends with the training loop's backward and teacher step
SearchValidate_UpdatesTeacher ==
    /\ pc = "search_val"
    /\ \E correct \in 0 .. MaxCorrect :
          /\ accuracy' = correct
          /\ trials' = Append(trials, [pair |-> <<learner.conv1_filters, learner.conv2_filters>>,
                                       accuracy |-> correct,
                                       retained |-> correct > best_accuracy])
          /\ IF correct > best_accuracy
             THEN /\ best_accuracy' = correct
                  /\ filter_counts' = <<learner.conv1_filters, learner.conv2_filters>>
             ELSE UNCHANGED <<best_accuracy, filter_counts>>
    /\ version' = [x \in AllTensors |->
                     IF x \in ParamsToTrain(use_curriculum) /\ x \in loss.deps
                     THEN version[x] + 1 ELSE version[x]]
    /\ pc' = IF i = num_architectures - 1 THEN "search_final" ELSE "search_head"
    /\ UNCHANGED <<cfgVars, teacher, it, step, val_pos, grad, label, learner,
                   trajectory, diffopt, loss, inner_losses, i, report, error, hist,
                   conv_filters, vis_row>>

\* lines 627-641: validation accuracy over val_loader, best-pair tracking
SearchValidate ==
    /\ pc = "search_val"
    /\ \E correct \in 0 .. MaxCorrect :
          /\ accuracy' = correct
          /\ trials' = Append(trials, [pair |-> <<learner.conv1_filters, learner.conv2_filters>>,
                                       accuracy |-> correct,
                                       retained |-> BetterThanBest(correct, best_accuracy)])
          /\ IF BetterThanBest(correct, best_accuracy)
             THEN /\ best_accuracy' = correct
                  /\ filter_counts' = <<learner.conv1_filters, learner.conv2_filters>>
             ELSE UNCHANGED <<best_accuracy, filter_counts>>
    /\ pc' = IF i = num_architectures - 1 THEN "search_final" ELSE "search_head"
    /\ UNCHANGED <<cfgVars, teacher, it, step, val_pos, version, grad, label, learner,
                   trajectory, diffopt, loss, inner_losses, i, report, error, hist,
                   conv_filters, vis_row>>

\* the index of the trial that assigned filter_counts last (lines 636-638),
\* -1 when none did
RECURSIVE RetainedTrial(_)
RetainedTrial(ts) ==
    IF ts = <<>> THEN 0 - 1
    ELSE IF Last(ts).retained THEN Len(ts) - 1
    ELSE RetainedTrial(SubSeq(ts, 1, Len(ts) - 1))

\* variant: the test accuracy is computed with the student of the retained trial
SearchFinalReport_TestsRetained ==
    /\ pc = "search_final"
    /\ \E correct \in 0 .. MaxCorrect : accuracy' = correct
    /\ IF filter_counts = <<>>
       THEN /\ error' = "NameError"
            /\ pc' = "aborted"
            /\ report' = report
       ELSE /\ report' = [report EXCEPT !.search = filter_counts,
                                        !.search_tested =
                                            [owner |-> <<"search", RetainedTrial(trials)>>,
                                             pair |-> trials[RetainedTrial(trials) + 1].pair]]
            /\ pc' = "done"
            /\ error' = error
    /\ UNCHANGED <<cfgVars, teacher, searchVars, it, step, val_pos, version, grad,
                   label, learner, trajectory, diffopt, loss, inner_losses, hist>>

\* lines 644-653: the last trial computes the test accuracy with flearner, the
\* student of the with-block the statements are in, and prints it next to
\* filter_counts, a NameError when no trial ever assigned it
SearchFinalReport ==
    /\ pc = "search_final"
    /\ \E correct \in 0 .. MaxCorrect : accuracy' = correct
    /\ IF filter_counts = <<>>
       THEN /\ error' = "NameError"
            /\ pc' = "aborted"
            /\ report' = report
       ELSE /\ report' = [report EXCEPT !.search = filter_counts,
                                        !.search_tested =
                                            [owner |-> Last(trajectory).owner,
                                             pair |-> <<learner.conv1_filters,
                                                        learner.conv2_filters>>]]
            /\ pc' = "done"
            /\ error' = error
    /\ UNCHANGED <<cfgVars, teacher, searchVars, it, step, val_pos, version, grad,
                   label, learner, trajectory, diffopt, loss, inner_losses, hist>>

\* the teacher calls of the visualization cell for rows r, r + 1, ... of the
\* grid: row r shows step 2 * r
RECURSIVE VisCalls(_, _)
VisCalls(r, bn) ==
    IF 2 * r >= inner_loop_iterations THEN [calls |-> {}, teacher |-> bn, rows |-> r]
    ELSE LET c == TeacherCallOn(bn, <<"vis", r>>, 2 * r)
             rest == VisCalls(r + 1, c.teacher)
         IN [rest EXCEPT !.calls = @ \cup {c.call}]

\* lines 684-702, the visualization cell: one teacher call per row of the
\* grid, for step = 0, 2, 4, ... below inner_loop_iterations.  The cell's loop
\* variable is kept as vis_row; nothing reads step or i after it.
Visualize ==
    /\ pc = "done"
    /\ vis_row = 0
    /\ hist' = [hist EXCEPT !.forwards = @ \cup VisCalls(0, teacher).calls]
    /\ teacher' = VisCalls(0, teacher).teacher
    /\ vis_row' = VisCalls(0, teacher).rows
    /\ UNCHANGED <<cfgVars, pc, it, step, val_pos, version, grad, label, learner,
                   trajectory, diffopt, loss, inner_losses, i, best_accuracy,
                   filter_counts, accuracy, trials, report, error, conv_filters>>

SearchNext ==
    \/ SampleArchitecture
    \/ SearchInnerStep
    \/ SearchValidate
    \/ SearchFinalReport

Next == TrainNext \/ SearchNext \/ Visualize

Spec == Init /\ [][Next]_vars

\* the notebook before its training cell, with outer_loop_iterations below, at
\* and above the number of batches train_loader yields
InitTrain ==
    /\ pc = "train_head"
    /\ \E o \in 1 .. MaxTrainLen + 1, tl \in 1 .. MaxTrainLen, vl \in 1 .. MaxValLen,
          uc \in BOOLEAN : SetUp(o, tl, vl, uc)
    /\ sgd = NoSgd
    /\ mc = <<>>
    /\ pl = <<>>
    /\ shp = <<>>

\* the training cell alone
SpecTrain == InitTrain /\ [][TrainNext]_vars

\* the cell is a sequential program: the interpreter goes on to the next
\* statement as long as there is one
SpecTrainLive == SpecTrain /\ WF_vars(TrainNext)

\* ------------------------------------------------------ the inner-loop trainer
\* The arithmetic of one student's unrolled SGD with momentum: optim.SGD(lr,
\* momentum) applied through diffopt.step, on one scalar parameter.
\* ps: the parameter snapshots, oldest first; gs: the gradients received;
\* ds: the update directions applied.

\* the momentum buffer after a step: the gradient itself on the first step,
\* momentum * buf + g afterwards (dampening 0)
MomentumBuffer(o, g) == IF o.has_buf THEN o.momentum * o.buf + g ELSE g

\* the direction a step moves along: the buffer when momentum is used
UpdateDirection(o, g) == IF o.momentum # 0 THEN MomentumBuffer(o, g) ELSE g

\* variant: the learning rate is not applied
SgdUpdate_IgnoresLr(p, lr, d) == p - d

\* the new parameter: p - lr * d
SgdUpdate(p, lr, d) == p - lr * d

SgdDiffoptStep(o, g) ==
    LET d == UpdateDirection(o, g) IN
    [o EXCEPT !.ps = Append(@, SgdUpdate(Last(o.ps), o.lr, d)),
              !.has_buf = (o.momentum # 0) \/ @,
              !.buf = IF o.momentum # 0 THEN d ELSE @,
              !.gs = Append(@, g),
              !.ds = Append(@, d)]

\* a freshly initialised student and optimizer, for every lr and momentum the
\* teacher can have learned
InitSgd ==
    /\ pc = "sgd"
    /\ SetUp(1, 1, 1, TRUE)
    /\ \E l \in LrValues, m \in MomentumValues :
          sgd = [lr |-> l, momentum |-> m, ps |-> <<0>>, has_buf |-> FALSE, buf |-> 0,
                 gs |-> <<>>, ds |-> <<>>]
    /\ mc = <<>>
    /\ pl = <<>>
    /\ shp = <<>>

\* diffopt.step(loss) with the gradient g of the inner loss
SgdStep ==
    /\ pc = "sgd"
    /\ Len(sgd.gs) < SgdSteps
    /\ \E g \in Grads : sgd' = SgdDiffoptStep(sgd, g)
    /\ UNCHANGED <<pc, outer_loop_iterations, train_len, val_len, use_curriculum, it,
                   step, val_pos, version, grad, label, learner, trajectory, diffopt,
                   loss, inner_losses, i, best_accuracy, filter_counts, accuracy,
                   trials, report, error, hist, conv_filters, teacher, vis_row,
                   mc, pl, shp>>

SgdNext == SgdStep

SpecSgd == InitSgd /\ [][SgdNext]_vars

\* ------------------------------------------------------ tensor shapes in the teacher
\* Teacher.forward (lines 270-301) on the shape of a batch: each layer either
\* maps the shape of its input to the shape of its output or raises.  A shape
\* is a sequence of sizes.

\* Teacher.__init__: fc1_size = 1024, fc2_filters = 128, conv1_filters = 64, scaled
fc1_size == 3
fc2_filters == 2
teacher_conv1_filters == 2

RECURSIVE Numel(_)
Numel(shape) == IF shape = <<>> THEN 1 ELSE shape[1] * Numel(Tail(shape))

\* what a layer gives: the shape of its output, or the exception it raises
Ok(shape) == [shape |-> shape, error |-> "none"]
Raise(exception) == [shape |-> <<>>, error |-> exception]

\* torch.cat([x, target], dim=1)
CatDim1(x, target) ==
    IF Len(x) = 2 /\ Len(target) = 2 /\ x[1] = target[1] THEN Ok(<<x[1], x[2] + target[2]>>)
    ELSE Raise("RuntimeError")

\* nn.Linear(in_features, out_features)
LinearShape(in_features, out_features, x) ==
    IF x[Len(x)] = in_features THEN Ok([x EXCEPT ![Len(x)] = out_features])
    ELSE Raise("RuntimeError")

\* variant: a batch norm that accepts a single value per channel in training mode
BatchNormShape_AnyBatch(num_features, training, x) ==
    IF x[2] # num_features THEN Raise("RuntimeError") ELSE Ok(x)

\* nn.BatchNorm1d / nn.BatchNorm2d(num_features): the shape is kept; in training
\* mode a batch with one value per channel raises ValueError
BatchNormShape(num_features, training, x) ==
    IF x[2] # num_features THEN Raise("RuntimeError")
    ELSE IF training /\ Numel(x) \div x[2] = 1 THEN Raise("ValueError")
    ELSE Ok(x)

\* x.view(-1, c, h, w)
ViewShape(c, h, w, x) ==
    IF Numel(x) % (c * h * w) = 0 THEN Ok(<<Numel(x) \div (c * h * w), c, h, w>>)
    ELSE Raise("RuntimeError")

\* variant: a convolution without padding
Conv2dShape_NoPadding(in_channels, out_channels, kernel_size, padding, x) ==
    IF x[2] # in_channels \/ x[3] < kernel_size \/ x[4] < kernel_size
    THEN Raise("RuntimeError")
    ELSE Ok(<<x[1], out_channels, x[3] - kernel_size + 1, x[4] - kernel_size + 1>>)

\* nn.Conv2d(in_channels, out_channels, kernel_size, 1, padding)
Conv2dShape(in_channels, out_channels, kernel_size, padding, x) ==
    IF x[2] # in_channels \/ x[3] + 2 * padding < kernel_size
                          \/ x[4] + 2 * padding < kernel_size
    THEN Raise("RuntimeError")
    ELSE Ok(<<x[1], out_channels, x[3] + 2 * padding - kernel_size + 1,
              x[4] + 2 * padding - kernel_size + 1>>)

\* the statements of Teacher.forward, in order
TeacherLayers ==
    <<"cat", "fc1", "leaky_relu", "bn_fc1", "fc2", "leaky_relu", "view", "bn_fc2",
      "conv1", "bn_conv1", "leaky_relu", "conv2", "bn_conv2", "tanh", "return">>

\* the shape of x after statement n of Teacher.forward, for a teacher built with
\* the hyper-parameters in h
TeacherLayerShape(n, h, training, x, target) ==
    CASE TeacherLayers[n] = "cat" -> CatDim1(x, target)
      [] TeacherLayers[n] = "fc1" -> LinearShape(h.noise_size + h.num_classes, fc1_size, x)
      [] TeacherLayers[n] = "bn_fc1" -> BatchNormShape(fc1_size, training, x)
      [] TeacherLayers[n] = "fc2" ->
            LinearShape(fc1_size, fc2_filters * h.img_size * h.img_size, x)
      [] TeacherLayers[n] = "view" -> ViewShape(fc2_filters, h.img_size, h.img_size, x)
      [] TeacherLayers[n] = "bn_fc2" -> BatchNormShape(fc2_filters, training, x)
      [] TeacherLayers[n] = "conv1" ->
            Conv2dShape(fc2_filters, teacher_conv1_filters, 3, 3 \div 2, x)
      [] TeacherLayers[n] = "bn_conv1" -> BatchNormShape(teacher_conv1_filters, training, x)
      [] TeacherLayers[n] = "conv2" -> Conv2dShape(teacher_conv1_filters, 1, 3, 3 \div 2, x)
      [] TeacherLayers[n] = "bn_conv2" -> BatchNormShape(1, training, x)
      [] OTHER -> Ok(x)

\* Learner.__init__, line 346: self.conv1 = nn.Conv2d(1, conv1_filters, 3, 1)
learner_in_channels == 1

\* a teacher in training mode (line 464), about to be called on a batch of b
\* noise vectors and b one-hot labels
InitShape ==
    /\ pc = "teacher_forward"
    /\ SetUp(1, 1, 1, TRUE)
    /\ sgd = NoSgd
    /\ mc = <<>>
    /\ pl = <<>>
    /\ \E b \in 1 .. ShapeBatchBound, ns \in 1 .. NoiseSizeBound,
          nc \in 1 .. NumClassesBound, sz \in 1 .. ImgSizeBound :
          shp = [h |-> [noise_size |-> ns, num_classes |-> nc, img_size |-> sz],
                 b |-> b, z_vec |-> <<b, ns>>, one_hot |-> <<b, nc>>,
                 x |-> <<b, ns>>, target |-> <<b, nc>>, n |-> 0, raised |-> "none",
                 result |-> <<>>]

shpFrame == <<outer_loop_iterations, train_len, val_len, use_curriculum, it,
              step, val_pos, version, grad, label, learner, trajectory, diffopt,
              loss, inner_losses, i, best_accuracy, filter_counts, accuracy,
              trials, report, error, hist, conv_filters, teacher, vis_row, sgd, mc, pl>>

\* one statement of Teacher.forward
TeacherStatement ==
    /\ pc = "teacher_forward"
    /\ shp.n < Len(TeacherLayers)
    /\ LET y == TeacherLayerShape(shp.n + 1, shp.h, teacher.training, shp.x, shp.target)
       IN IF y.error # "none"
          THEN /\ shp' = [shp EXCEPT !.n = @ + 1, !.raised = y.error]
               /\ pc' = "raised"
          ELSE /\ shp' = [shp EXCEPT !.n = @ + 1, !.x = y.shape,
                                     !.result = IF shp.n + 1 = Len(TeacherLayers)
                                                THEN <<y.shape, shp.target>> ELSE <<>>]
               /\ pc' = IF shp.n + 1 = Len(TeacherLayers) THEN "returned"
                        ELSE "teacher_forward"
    /\ UNCHANGED shpFrame

ShapeNext == TeacherStatement

SpecShape == InitShape /\ [][ShapeNext]_vars

\* ------------------------------------------------------ tensor shapes in the learner
\* Learner.__init__ (lines 332-358) and Learner.forward (lines 360-375) on the
\* shape of a batch.

\* F.max_pool2d(x, kernel_size): the stride is the kernel size, sizes round down
MaxPool2dShape(kernel_size, x) ==
    IF x[3] < kernel_size \/ x[4] < kernel_size THEN Raise("RuntimeError")
    ELSE Ok(<<x[1], x[2], x[3] \div kernel_size, x[4] \div kernel_size>>)

\* torch.flatten(x, 1)
FlattenShape(x) == Ok(<<x[1], Numel(Tail(x))>>)

\* variant: the sizes are computed as for convolutions that keep the image size
LearnerFcWidth_SamePadding(img_size, conv2_filters) ==
    LET c1_size == img_size \div 2
        c2_size == c1_size \div 2
    IN conv2_filters * c2_size * c2_size

\* lines 352-355: the in_features of self.fc
LearnerFcWidth(img_size, conv2_filters) ==
    LET c1_size == (img_size - 3 + 1) \div 2
        c2_size == (c1_size - 3 + 1) \div 2
    IN conv2_filters * c2_size * c2_size

\* the statements of Learner.forward, in order
LearnerLayers ==
    <<"conv1", "activation", "bn1", "max_pool2d", "conv2", "activation", "bn2",
      "max_pool2d", "flatten", "fc", "bn3", "return">>

\* the shape of x after statement n of Learner.forward, for a learner l
LearnerLayerShape(n, l, training, x) ==
    CASE LearnerLayers[n] = "conv1" -> Conv2dShape(1, l.conv1_filters, 3, 0, x)
      [] LearnerLayers[n] = "bn1" -> BatchNormShape(l.conv1_filters, training, x)
      [] LearnerLayers[n] = "max_pool2d" -> MaxPool2dShape(2, x)
      [] LearnerLayers[n] = "conv2" -> Conv2dShape(l.conv1_filters, l.conv2_filters, 3, 0, x)
      [] LearnerLayers[n] = "bn2" -> BatchNormShape(l.conv2_filters, training, x)
      [] LearnerLayers[n] = "flatten" -> FlattenShape(x)
      [] LearnerLayers[n] = "fc" -> LinearShape(l.fc_in_features, num_classes, x)
      [] LearnerLayers[n] = "bn3" -> BatchNormShape(num_classes, training, x)
      [] OTHER -> Ok(x)

\* a learner in training mode (line 475), built for an image size and a pair
\* of filter counts, about to be called on a batch of b images
InitLearnerShape ==
    /\ pc = "learner_forward"
    /\ SetUp(1, 1, 1, TRUE)
    /\ sgd = NoSgd
    /\ mc = <<>>
    /\ pl = <<>>
    /\ \E b \in 1 .. ShapeBatchBound, sz \in 1 .. LearnerImgSizeBound,
          c1 \in np_random_randint(1, Conv1High), c2 \in np_random_randint(1, Conv2High) :
          shp = [img_size |-> sz, b |-> b,
                 learner |-> [conv1_filters |-> c1, conv2_filters |-> c2,
                              fc_in_features |-> LearnerFcWidth(sz, c2), training |-> TRUE],
                 x |-> <<b, 1, sz, sz>>, n |-> 0, raised |-> "none",
                 features |-> 0 - 1, result |-> <<>>]

\* one statement of Learner.forward
LearnerStatement ==
    /\ pc = "learner_forward"
    /\ shp.n < Len(LearnerLayers)
    /\ LET y == LearnerLayerShape(shp.n + 1, shp.learner, shp.learner.training, shp.x)
       IN IF y.error # "none"
          THEN /\ shp' = [shp EXCEPT !.n = @ + 1, !.raised = y.error]
               /\ pc' = "raised"
          ELSE /\ shp' = [shp EXCEPT !.n = @ + 1, !.x = y.shape,
                                     !.features = IF LearnerLayers[shp.n + 1] = "flatten"
                                                  THEN y.shape[2] ELSE @,
                                     !.result = IF shp.n + 1 = Len(LearnerLayers)
                                                THEN y.shape ELSE <<>>]
               /\ pc' = IF shp.n + 1 = Len(LearnerLayers) THEN "returned"
                        ELSE "learner_forward"
    /\ UNCHANGED shpFrame

LearnerShapeNext == LearnerStatement

SpecLearnerShape == InitLearnerShape /\ [][LearnerShapeNext]_vars

\* ------------------------------------------------------ modulated convolution
\* ModulatedConv2d of the StyleGAN2 components notebook (lines 103-152) on
\* integer tensors.  A tensor is its shape and its entries in row-major order,
\* indices counted from 0 as in the source.  A demodulated weight
\* w_prime / sqrt(sumsq + eps) is kept as the pair [v |-> w_prime, s |-> sumsq];
\* the entries of one filter share s, and so does every sum of their multiples.

\* self.eps = 1e-6, as EpsNum / EpsDen
EpsNum == 1
EpsDen == 1000000
\* height and width of the images convolved
ImageSide == 2
\* (in_channels, out_channels) of the layers built: equal as in the example
\* layers, different as in SimpleGenerator's c1 and c2
ChannelCounts == {<<2, 2>>, <<1, 2>>, <<2, 1>>}
\* (kernel_size, padding) of the layers built; padding defaults to 1
KernelPaddings == {<<3, 1>>, <<1, 0>>, <<1, 1>>}

Tensor(shape, data) == [shape |-> shape, data |-> data, error |-> "none"]
RaisedTensor(exception) == [shape |-> <<>>, data |-> <<>>, error |-> exception]

\* t[a][b][c][d]
At4(t, a, b, c, d) ==
    t.data[((a * t.shape[2] + b) * t.shape[3] + c) * t.shape[4] + d + 1]

\* t.view(shape)
View(t, shape) ==
    IF t.error # "none" THEN t
    ELSE IF Numel(shape) = Numel(t.shape) THEN Tensor(shape, t.data)
    ELSE RaisedTensor("RuntimeError")

\* the sums of squares of the rows of len consecutive entries: (t ** 2).sum(dims)
\* over the trailing dimensions
SumSquares(data, len) ==
    [r \in 1 .. (Len(data) \div len) |->
        SumSeq([e \in 1 .. len |-> data[(r - 1) * len + e] * data[(r - 1) * len + e]])]

\* variant: eps is left out
Radicand_NoEps(sumsq) == [num |-> sumsq * EpsDen, den |-> EpsDen]

\* sumsq + self.eps, what the square root is taken of, as a fraction
Radicand(sumsq) == [num |-> sumsq * EpsDen + EpsNum, den |-> EpsDen]

\* w_prime / torch.sqrt(sumsq[row] + eps), row by row
Demodulate(data, len) ==
    LET sumsq == SumSquares(data, len)
    IN [n \in 1 .. Len(data) |-> [v |-> data[n], s |-> sumsq[(n - 1) \div len + 1]]]

\* self.style_scale_transform(w_cur), an nn.Linear(w_dim, in_channels)
StyleScale(lin, w_cur) ==
    [c \in 1 .. Len(lin.bias) |-> Dot(lin.weight[c], w_cur) + lin.bias[c]]

\* F.conv2d(input, filter, padding=padding, groups=groups), stride 1, for an
\* integer input and a filter of demodulated weights
Conv2d(input, filter, padding, groups) ==
    LET N == input.shape[1]
        C == input.shape[2]
        H == input.shape[3]
        W == input.shape[4]
        F == filter.shape[1]
        Cg == filter.shape[2]
        kh == filter.shape[3]
        kw == filter.shape[4]
        Ho == H + 2 * padding - kh + 1
        Wo == W + 2 * padding - kw + 1
        Term(n, f, y, x, t) ==
            LET c == t \div (kh * kw)
                dy == (t \div kw) % kh
                dx == t % kw
                yy == y + dy - padding
                xx == x + dx - padding
            IN IF yy \in 0 .. (H - 1) /\ xx \in 0 .. (W - 1)
               THEN At4(input, n, (f \div (F \div groups)) * Cg + c, yy, xx)
                    * At4(filter, f, c, dy, dx).v
               ELSE 0
        Elem(n, f, y, x) ==
            LET v == SumSeq([t \in 1 .. (Cg * kh * kw) |-> Term(n, f, y, x, t - 1)])
            IN IF v = 0 THEN [v |-> 0, s |-> 0] ELSE [v |-> v, s |-> At4(filter, f, 0, 0, 0).s]
    IN IF input.error # "none" THEN input
       ELSE IF filter.error # "none" THEN filter
       ELSE IF C # groups * Cg \/ F % groups # 0 \/ Ho < 1 \/ Wo < 1
       THEN RaisedTensor("RuntimeError")
       ELSE Tensor(<<N, F, Ho, Wo>>,
                   [m \in 1 .. (N * F * Ho * Wo) |->
                       Elem((m - 1) \div (F * Ho * Wo), ((m - 1) \div (Ho * Wo)) % F,
                            ((m - 1) \div Wo) % Ho, (m - 1) % Wo)])

\* torch.cat(images) along dimension 0
RECURSIVE Cat(_)
Cat(images) ==
    IF Len(images) = 1 THEN images[1]
    ELSE LET rest == Cat(Tail(images))
         IN IF images[1].error # "none" THEN images[1]
            ELSE IF rest.error # "none" THEN rest
            ELSE Tensor([rest.shape EXCEPT ![1] = @ + images[1].shape[1]],
                        images[1].data \o rest.data)

\* image[j][None]
Sample(image, j) ==
    LET len == Numel(Tail(image.shape))
    IN Tensor([image.shape EXCEPT ![1] = 1], SubSeq(image.data, j * len + 1, (j + 1) * len))

\* self.conv_weight * style_scale[None, :, None, None]
Modulate(m, style_scale) ==
    LET k == m.kernel_size
    IN [n \in 1 .. Len(m.conv_weight.data) |->
           m.conv_weight.data[n] * style_scale[(((n - 1) \div (k * k)) % m.in_channels) + 1]]

\* w_prime_prime of sample j in forward, lines 126-132
ForwardDemodulated(m, w, j) ==
    Tensor(m.conv_weight.shape,
           Demodulate(Modulate(m, StyleScale(m.lin, w[j + 1])),
                      m.in_channels * m.kernel_size * m.kernel_size))

\* ModulatedConv2d.forward(image, w), lines 120-134: one convolution per sample
forward(m, image, w) ==
    Cat([j \in 1 .. Len(w) |->
           Conv2d(Sample(image, j - 1), ForwardDemodulated(m, w, j - 1), m.padding, 1)])

\* w_prime_prime of the batch in forward_efficient, lines 138-142
EfficientDemodulated(m, w) ==
    LET len == Len(m.conv_weight.data)
        w_prime == [n \in 1 .. (Len(w) * len) |->
            Modulate(m, StyleScale(m.lin, w[(n - 1) \div len + 1]))[((n - 1) % len) + 1]]
    IN Tensor(<<Len(w)>> \o m.conv_weight.shape,
              Demodulate(w_prime, m.in_channels * m.kernel_size * m.kernel_size))

\* ModulatedConv2d.forward_efficient(image, w), lines 136-152: one grouped
\* convolution for the batch
forward_efficient(m, image, w) ==
    LET w_prime_prime == EfficientDemodulated(m, w)
        batchsize == image.shape[1]
        in_channels == image.shape[2]
        height == image.shape[3]
        width == image.shape[4]
        out_channels == w_prime_prime.shape[2 + 1]
        efficient_image == View(image, <<1, batchsize * in_channels, height, width>>)
        efficient_filter ==
            View(w_prime_prime, <<batchsize * out_channels, in_channels>>
                                \o SubSeq(w_prime_prime.shape, 4, 5))
        efficient_out == Conv2d(efficient_image, efficient_filter, m.padding, batchsize)
    IN View(efficient_out, <<batchsize, out_channels>> \o SubSeq(image.shape, 3, 4))

\* what the square root is taken of for each entry of w_prime_prime
DenominatorRadicands(w_prime_prime) ==
    [n \in 1 .. Len(w_prime_prime.data) |-> Radicand(w_prime_prime.data[n].s)]

\* entries for a tensor of the given number of entries
Entries(n, seed) == [e \in 1 .. n |-> ((e * e + (e \div 2) + seed) % 3) - 1]

\* a layer as __init__ (lines 111-118) leaves it, an image batch and a batch of
\* latent vectors w (w_dim 1)
InitConv ==
    /\ pc = "conv"
    /\ SetUp(1, 1, 1, TRUE)
    /\ sgd = NoSgd
    /\ pl = <<>>
    /\ shp = <<>>
    /\ \E ch \in ChannelCounts, kp \in KernelPaddings, b \in 1 .. ConvBatchBound,
          bias \in 0 .. 1, seed \in 0 .. 1 :
          \E w \in [1 .. b -> {<<l>> : l \in (0 - LatentBound) .. LatentBound}] :
             mc = [layer |-> [in_channels |-> ch[1], out_channels |-> ch[2],
                              kernel_size |-> kp[1], padding |-> kp[2],
                              conv_weight |-> Tensor(<<ch[2], ch[1], kp[1], kp[1]>>,
                                                     Entries(ch[2] * ch[1] * kp[1] * kp[1], seed)),
                              lin |-> [weight |-> [c \in 1 .. ch[1] |-> <<c>>],
                                       bias |-> [c \in 1 .. ch[1] |-> bias]]],
                   image |-> Tensor(<<b, ch[1], ImageSide, ImageSide>>,
                                    Entries(b * ch[1] * ImageSide * ImageSide, seed + 1)),
                   w |-> w, done |-> {}, out |-> <<>>, out_efficient |-> <<>>,
                   radicands |-> <<>>, radicands_efficient |-> <<>>]

mcFrame == <<pc, outer_loop_iterations, train_len, val_len, use_curriculum, it,
             step, val_pos, version, grad, label, learner, trajectory, diffopt,
             loss, inner_losses, i, best_accuracy, filter_counts, accuracy,
             trials, report, error, hist, conv_filters, teacher, vis_row, sgd, pl, shp>>

\* layer.forward(image, w)
CallForward ==
    /\ pc = "conv"
    /\ "forward" \notin mc.done
    /\ mc' = [mc EXCEPT !.done = @ \cup {"forward"},
                        !.out = forward(mc.layer, mc.image, mc.w),
                        !.radicands = [j \in 1 .. Len(mc.w) |->
                            DenominatorRadicands(ForwardDemodulated(mc.layer, mc.w, j - 1))]]
    /\ UNCHANGED mcFrame

\* layer.forward_efficient(image, w)
CallForwardEfficient ==
    /\ pc = "conv"
    /\ "forward_efficient" \notin mc.done
    /\ mc' = [mc EXCEPT !.done = @ \cup {"forward_efficient"},
                        !.out_efficient = forward_efficient(mc.layer, mc.image, mc.w),
                        !.radicands_efficient =
                            DenominatorRadicands(EfficientDemodulated(mc.layer, mc.w))]
    /\ UNCHANGED mcFrame

ConvNext == CallForward \/ CallForwardEfficient

SpecConv == InitConv /\ [][ConvNext]_vars

\* ------------------------------------------------------ path-length regularization
\* The cell of the StyleGAN2 components notebook that defines
\* path_length_regulization_loss and applies it once (lines 232-252), in exact
\* arithmetic.  A tensor is the sequence of its entries; the generator is a
\* differentiable map of w, here a linear one, fake_images[j] = sum_k G[j][k] * w[k],
\* whose Jacobian is G.  The square root of the penalty is not taken: the
\* model keeps the penalty's square.

\* a = 10
InitialA == 10
\* decay = 0.001, as DecayNum / DecayDen
DecayNum == 1
DecayDen == 1000
\* entries of test_w and of an image batch
PlSize == 2

PlValues == (0 - PlValueBound) .. PlValueBound
PlVectors == [1 .. PlSize -> PlValues]
GeneratorMaps ==
    {[j \in 1 .. PlSize |-> [k \in 1 .. PlSize |-> IF j = k THEN 1 ELSE c]] : c \in 0 .. 1}

\* generator(w)
Generator(G, w) == [j \in 1 .. PlSize |-> Dot(G[j], w)]

\* grad(outputs=output_var, inputs=w)[0] for output_var = (generator(w) * y).sum():
\* the Jacobian's transpose applied to y
GradWrtW(G, y) == [k \in 1 .. PlSize |-> SumSeq([j \in 1 .. PlSize |-> G[j][k] * y[j]])]

\* (((cur_grad - a) ** 2).sum()), the square of the penalty returned
PenaltySquared(cur_grad, a) ==
    SumSeq([k \in 1 .. Len(cur_grad) |-> (cur_grad[k] - a) * (cur_grad[k] - a)])

\* path_length_regulization_loss(generator, w, a) with random_images = y
path_length_regulization_loss(G, w, a, y) ==
    LET fake_images == Generator(G, w)
        output_var == Dot(fake_images, y)
        cur_grad == GradWrtW(G, y)
    IN [penalty_sq |-> PenaltySquared(cur_grad, a), output_var |-> output_var,
        cur_grad |-> cur_grad]

\* a * (1 - decay) + variation * decay, as a fraction over DecayDen
DecayedAverage(a, variation) ==
    [num |-> a * (DecayDen - DecayNum) + variation * DecayNum, den |-> DecayDen]

NoValue == <<"unset">>

\* lines 244-247: the generator, test_w and a
InitPathLength ==
    /\ pc = "pl_call"
    /\ SetUp(1, 1, 1, TRUE)
    /\ sgd = NoSgd
    /\ mc = <<>>
    /\ shp = <<>>
    /\ \E G \in GeneratorMaps, w \in PlVectors :
          pl = [generator |-> G, test_w |-> w, a |-> InitialA, random_images |-> NoValue,
                cur_grad |-> NoValue, a_in_penalty |-> NoValue, penalty_sq |-> NoValue,
                variation |-> NoValue, new_a |-> NoValue, updates |-> 0]

plFrame == <<outer_loop_iterations, train_len, val_len, use_curriculum, it,
             step, val_pos, version, grad, label, learner, trajectory, diffopt,
             loss, inner_losses, i, best_accuracy, filter_counts, accuracy,
             trials, report, error, hist, conv_filters, teacher, vis_row, sgd, mc, shp>>

\* variant: the function replaces a by the decayed average before it computes
\* the penalty
CallLoss_UpdatesAFirst ==
    /\ pc = "pl_call"
    /\ \E y \in PlVectors :
          LET r0 == path_length_regulization_loss(pl.generator, pl.test_w, pl.a, y)
              a1 == DecayedAverage(pl.a, r0.output_var).num \div DecayDen
              r == path_length_regulization_loss(pl.generator, pl.test_w, a1, y)
          IN pl' = [pl EXCEPT !.random_images = y, !.cur_grad = r.cur_grad, !.a = a1,
                              !.a_in_penalty = a1, !.penalty_sq = r.penalty_sq,
                              !.variation = r.output_var]
    /\ pc' = "pl_update"
    /\ UNCHANGED plFrame

\* line 248: penalty, variation = path_length_regulization_loss(simple_gen, test_w, a=a)
CallLoss ==
    /\ pc = "pl_call"
    /\ \E y \in PlVectors :
          LET r == path_length_regulization_loss(pl.generator, pl.test_w, pl.a, y)
          IN pl' = [pl EXCEPT !.random_images = y, !.cur_grad = r.cur_grad,
                              !.a_in_penalty = pl.a, !.penalty_sq = r.penalty_sq,
                              !.variation = r.output_var]
    /\ pc' = "pl_update"
    /\ UNCHANGED plFrame

\* lines 250-251: new_a = a * (1 - decay) + variation * decay
UpdateAverage ==
    /\ pc = "pl_update"
    /\ pl' = [pl EXCEPT !.new_a = DecayedAverage(pl.a, pl.variation), !.updates = @ + 1]
    /\ pc' = "pl_done"
    /\ UNCHANGED plFrame

PathLengthNext == CallLoss \/ UpdateAverage

SpecPathLength == InitPathLength /\ [][PathLengthNext]_vars

\* ====================================================== properties
TrainPcs == {"train_head", "inner", "real_eval", "val_eval", "budget", "teacher_step"}
SearchPcs == {"search_head", "search_inner", "search_val", "search_final"}

\* the training cell has finished without raising
TrainingEnded == pc \in SearchPcs \cup {"done"} \/ (pc = "aborted" /\ error = "NameError")

\* the training cell was stopped by an exception
TrainingAborted == pc = "aborted" /\ error = "StopIteration"

Count(seq, v) == Cardinality({k \in 1 .. Len(seq) : seq[k] = v})

\* outer iteration k has run to its end (the loop went on, or ended normally)
IterationCompleted(k) ==
    /\ k \in 0 .. it
    /\ k < it \/ pc = "train_head" \/ TrainingEnded

\* C1: the budget iteration (it = outer_loop_iterations - 1) never calls
\* loss.backward() nor optimizer_teacher.step(); when it ends, the final test
\* accuracy has been reported and the training loop has ended without an error.
C1_BudgetIterationSkipsUpdate ==
    /\ Count(hist.backward, outer_loop_iterations - 1) = 0
    /\ Count(hist.step, outer_loop_iterations - 1) = 0
    /\ (pc = "teacher_step" => it # outer_loop_iterations - 1)
    /\ (it = outer_loop_iterations - 1 /\ IterationCompleted(it) => report.train)
    /\ (report.train => it = outer_loop_iterations - 1 /\ TrainingEnded
                        /\ error # "StopIteration")

\* C1 witness: the budget iteration has reported after earlier iterations updated
\* the teacher
C1_Witness ==
    /\ pc = "search_head"
    /\ report.train
    /\ it = outer_loop_iterations - 1
    /\ hist.step # <<>>

\* C2 as stated: every outer iteration that has run to its end applied
\* optimizer_teacher.step() exactly once.
C2_StepOncePerIteration ==
    \A k \in 0 .. it : IterationCompleted(k) => Count(hist.step, k) = 1

\* C2 amended: optimizer_teacher.step() is applied at most once per outer
\* iteration: exactly once in an iteration that runs to its end and is not the
\* budget iteration, not at all in the budget iteration or in one that raised;
\* every tensor of params_to_train has been updated once per step applied.
C2_StepOncePerNonBudgetIteration ==
    /\ \A k \in 0 .. it :
          /\ Count(hist.step, k) <= 1
          /\ IterationCompleted(k) =>
                Count(hist.step, k) = (IF k = outer_loop_iterations - 1 THEN 0 ELSE 1)
          /\ (k = it /\ TrainingAborted) => Count(hist.step, k) = 0
    /\ \A x \in ParamsToTrain(use_curriculum) : version[x] = Len(hist.step)

\* C2 witness: a full iteration has updated the teacher and the budget iteration
\* has ended
C2_Witness ==
    /\ TrainingEnded
    /\ report.train
    /\ Count(hist.step, 0) = 1
    /\ version["fc1"] = 1

\* C3: no student snapshot depends on real data, every snapshot depends only on
\* the initial student, the synthetic batch and lr / momentum, and the real
\* training batch is evaluated only on the snapshot after all inner steps of
\* its iteration, never while the student's inner loop is still running.
C3_RealDataAfterInnerLoop ==
    /\ \A k \in 1 .. Len(trajectory) :
          /\ "real_data" \notin trajectory[k].deps
          /\ trajectory[k].deps \subseteq
                {"learner_init", "learner_optim_params"} \cup TeacherOutputDeps(use_curriculum)
    /\ (loss.src = "synthetic" => "real_data" \notin loss.deps)
    /\ (loss.src = "real_data" => loss.snap = inner_loop_iterations + 1)
    /\ (loss.src = "real_data" /\ loss.owner = learner.owner =>
          /\ Len(trajectory) = inner_loop_iterations + 1
          /\ step = inner_loop_iterations
          /\ pc \notin {"inner", "search_inner"})

\* C3 witness: the real batch has been evaluated after a complete inner loop
C3_Witness ==
    /\ pc = "val_eval"
    /\ loss.src = "real_data"
    /\ "real_data" \in loss.deps
    /\ Len(trajectory) = inner_loop_iterations + 1

\* the search has gone through all its trials and its final report
SearchOver == Len(trials) = num_architectures /\ pc \in {"done", "aborted"}

\* C4 as stated: once the search has run all trials it has reported a pair, that
\* pair was sampled, and the validation accuracy recorded for it is at least
\* the validation accuracy recorded for every sampled pair.
C4_BestPairReported ==
    SearchOver =>
        /\ report.search # <<>>
        /\ \E k \in 1 .. Len(trials) :
              /\ trials[k].pair = report.search
              /\ \A j \in 1 .. Len(trials) : trials[k].accuracy >= trials[j].accuracy

\* C5: no step of the architecture search changes a teacher weight,
\* teacher.learner_optim_params or the curriculum, calls loss.backward() or
\* optimizer_teacher.step(); the per-trial student is what changes.
C5_SearchDoesNotLearn ==
    [][(pc \in SearchPcs) => (version' = version /\ grad' = grad /\ hist'.step = hist.step /\ hist'.backward = hist.backward)]_vars

\* C5 witness: the search has completed on a teacher that training had updated
C5_Witness ==
    /\ pc = "done"
    /\ Len(trials) = num_architectures
    /\ version["learner_optim_params"] >= 1
    /\ Len(trajectory) = inner_loop_iterations + 1

\* the student whose inner loop is running or has just run
CurrentOwner == IF pc \in TrainPcs THEN <<"train", it>> ELSE <<"search", i>>

\* C6: every inner step reads only the snapshot and the optimizer state of its
\* own iteration or trial; each inner loop starts from a new Learner's initial
\* snapshot and an empty optimizer state.
C6_FreshStudentPerIteration ==
    /\ \A r \in hist.reads : r.snap = r.by /\ r.opt = r.by
    /\ (pc \in {"inner", "search_inner"} =>
          /\ learner.owner = CurrentOwner
          /\ diffopt.owner = CurrentOwner
          /\ diffopt.steps = step
          /\ \A k \in 1 .. Len(trajectory) : trajectory[k].owner = CurrentOwner
          /\ (step = 0 => trajectory = <<InitialSnapshot(learner)>>
                          /\ learner.params = "init"))

\* C6 witness: second students of both loops have taken inner steps
C6_Witness ==
    /\ [by |-> <<"train", 1>>, snap |-> <<"train", 1>>, opt |-> <<"train", 1>>] \in hist.reads
    /\ [by |-> <<"search", 1>>, snap |-> <<"search", 1>>, opt |-> <<"search", 1>>] \in hist.reads

\* the trajectory of the current student is in order and complete
C7_TrajectoryOrdered ==
    /\ (trajectory # <<>> => Len(trajectory) = step + 1)
    /\ \A k \in 1 .. Len(trajectory) : trajectory[k].t = k - 1
    /\ (loss.src = "real_data" /\ loss.owner = learner.owner => loss.snap = Len(trajectory))
    /\ learner.params \in {"none", "init"}

\* a step on the same student keeps every snapshot it had
C7_SnapshotsKept ==
    learner' = learner =>
        /\ Len(trajectory') >= Len(trajectory)
        /\ \A k \in 1 .. Len(trajectory) : trajectory'[k] = trajectory[k]

\* C7: each diffopt.step appends one snapshot and leaves the earlier ones of the
\* student unchanged, so after K steps the trajectory is snapshot 0 .. K in
\* order; the real-data loss is evaluated on the last one and the learner's own
\* parameters stay as initialised.
C7_FunctionalUpdates == []C7_TrajectoryOrdered /\ [][C7_SnapshotsKept]_vars

\* C7 witness: the real-data loss was evaluated on the last of K + 1 snapshots
C7_Witness ==
    /\ loss.src = "real_data"
    /\ loss.owner = learner.owner
    /\ loss.snap = inner_loop_iterations + 1
    /\ trajectory[1] = InitialSnapshot(learner)
    /\ Last(trajectory).t = inner_loop_iterations

\* C8: after loss.backward() of an outer iteration every tensor handed to the
\* teacher optimizer has a gradient: the real-data loss depends on each of
\* them through the unrolled inner loop.
C8_AllTeacherGradsSet ==
    /\ (pc = "teacher_step" \/ (pc = "train_head" /\ it >= 0) =>
          \A x \in ParamsToTrain(use_curriculum) : ~grad[x].none)
    /\ (loss.src = "real_data" => ParamsToTrain(use_curriculum) \subseteq loss.deps)

\* C8 witness: backward has run with a curriculum
C8_Witness ==
    /\ pc = "teacher_step"
    /\ use_curriculum
    /\ ~grad["curriculum"].none
    /\ ~grad["learner_optim_params"].none

\* C9 as stated: with lr = 0 the final snapshot equals the initial one; with
\* lr # 0 and at least one step it differs from the initial one.
C9_NonzeroLrMovesStudent ==
    /\ (sgd.lr = 0 => Last(sgd.ps) = sgd.ps[1])
    /\ (sgd.lr # 0 /\ Len(sgd.gs) >= 1 => Last(sgd.ps) # sgd.ps[1])

\* C9 amended: with lr = 0 every snapshot equals the initial one; with lr # 0
\* the final snapshot is the initial one minus lr times the sum of the update
\* directions applied (the first is the first gradient), so it differs from the
\* initial one exactly when that sum is not zero.
C9_StudentMovesByLrTimesUpdates ==
    /\ (sgd.lr = 0 => \A k \in 1 .. Len(sgd.ps) : sgd.ps[k] = sgd.ps[1])
    /\ Len(sgd.ps) = Len(sgd.gs) + 1
    /\ (Len(sgd.gs) >= 1 => sgd.ds[1] = sgd.gs[1])
    /\ Last(sgd.ps) = sgd.ps[1] - sgd.lr * SumSeq(sgd.ds)
    /\ (sgd.lr # 0 => (Last(sgd.ps) # sgd.ps[1] <=> SumSeq(sgd.ds) # 0))

\* C9 witness: with a nonzero lr, steps with nonzero gradients have cancelled
C9_Witness ==
    /\ sgd.lr # 0
    /\ Len(sgd.gs) >= 2
    /\ sgd.gs[1] # 0
    /\ Last(sgd.ps) = sgd.ps[1]

\* C10: label[x] = x mod num_classes for each index x of the inner batch, and
\* every inner step of every outer iteration and search trial used that tensor.
C10_LabelsFixedAndCyclic ==
    /\ DOMAIN label = 1 .. inner_loop_batch_size
    /\ \A k \in 1 .. inner_loop_batch_size : label[k] = (k - 1) % num_classes
    /\ \A l \in hist.labels : l = label

\* C10 witness: the label tensor was used by training steps and by search steps
C10_Witness ==
    /\ hist.labels = {label}
    /\ \E r \in hist.reads : r.by[1] = "train"
    /\ \E r \in hist.reads : r.by[1] = "search"
    /\ label[num_classes + 1] = 0

\* the inner loop of the current student is running or has just ended
InIteration == pc \in {"inner", "real_eval", "val_eval", "budget", "search_inner", "search_val"}

\* every step of the current student used the lr / momentum values the teacher
\* holds during this iteration
C11_SameValuesInEveryStep ==
    /\ \A k \in 2 .. Len(trajectory) : trajectory[k].hp = trajectory[2].hp
    /\ (InIteration => \A k \in 2 .. Len(trajectory) :
                          trajectory[k].hp = version["learner_optim_params"])

\* the values change only in optimizer_teacher.step(), by which the iteration ends
C11_ChangedOnlyByTeacherStep ==
    (version'["learner_optim_params"] # version["learner_optim_params"]) => (pc = "teacher_step" /\ pc' = "train_head" /\ hist'.step = Append(hist.step, it) /\ trajectory' = trajectory)

\* C11: within one outer iteration (and one search trial) all inner steps use
\* the same lr and momentum values, those teacher.learner_optim_params holds at
\* the start of the iteration; the values change only through
\* optimizer_teacher.step() between outer iterations, never during an inner loop.
C11_LrMomentumFixedWithinIteration ==
    []C11_SameValuesInEveryStep /\ [][C11_ChangedOnlyByTeacherStep]_vars

\* C11 witness: a second student ran all its steps with the values the first
\* iteration's teacher update produced
C11_Witness ==
    /\ pc = "real_eval"
    /\ it = 1
    /\ inner_loop_iterations >= 2
    /\ version["learner_optim_params"] = 1
    /\ \A k \in 2 .. Len(trajectory) : trajectory[k].hp = 1

\* a diffopt.step has been applied by this step of the notebook
DiffoptStepped == learner' = learner /\ (trajectory' # trajectory \/ diffopt' # diffopt)

\* C12: optimizer_teacher.step() is issued only by the outer loop, after the
\* inner loop of its iteration has completed, never by the search; diffopt.step
\* is issued only inside the inner loop of the student it belongs to, on that
\* student's snapshots, never after the loop's last step.
C12_SingleOwnerOfSteps ==
    [][((hist'.step # hist.step \/ version' # version) => (pc = "teacher_step" /\ step = inner_loop_iterations /\ trajectory' = trajectory /\ diffopt' = diffopt)) /\ (DiffoptStepped => (pc \in {"inner", "search_inner"} /\ step < inner_loop_iterations /\ step' = step + 1 /\ diffopt.owner = CurrentOwner /\ Last(trajectory).owner = CurrentOwner /\ Last(trajectory').owner = CurrentOwner /\ diffopt'.steps = diffopt.steps + 1))]_vars

\* C12 witness: a teacher step has been applied and students of two outer
\* iterations and of a search trial have been stepped
C12_Witness ==
    /\ hist.step # <<>>
    /\ pc = "search_val"
    /\ diffopt.steps = inner_loop_iterations
    /\ \E r \in hist.reads : r.by = <<"train", 0>>
    /\ \E r \in hist.reads : r.by = <<"train", 1>>

\* C17: each width of a Learner is the argument when one is supplied and is
\* drawn from its own range otherwise, independently of the other width; every
\* training-loop student has both widths from the random ranges; every search
\* student has exactly the pair sampled for its trial, a pair of the search
\* ranges.
C17_LearnerWidths ==
    /\ (pc = "search_inner" /\ step = 0 =>
          /\ LearnerWidths(conv_filters[1], conv_filters[2]) = {conv_filters}
          /\ LearnerWidths(conv_filters[1], None) =
                {conv_filters[1]} \X np_random_randint(Conv2Low, Conv2High)
          /\ LearnerWidths(None, conv_filters[2]) =
                np_random_randint(Conv1Low, Conv1High) \X {conv_filters[2]})
    /\ (pc = "inner" /\ step = 0 =>
          LearnerWidths(None, None) =
             np_random_randint(Conv1Low, Conv1High) \X np_random_randint(Conv2Low, Conv2High))
    /\ (learner.owner[1] = "train" =>
          /\ learner.conv1_filters \in np_random_randint(Conv1Low, Conv1High)
          /\ learner.conv2_filters \in np_random_randint(Conv2Low, Conv2High))
    /\ (learner.owner[1] = "search" =>
          /\ <<learner.conv1_filters, learner.conv2_filters>> = conv_filters
          /\ conv_filters \in np_random_randint(1, Conv1High) \X np_random_randint(1, Conv2High))
    /\ \A k \in 1 .. Len(trials) :
          trials[k].pair \in np_random_randint(1, Conv1High) \X np_random_randint(1, Conv2High)

\* C17 witness: a search student pinned to a pair outside the random ranges
C17_Witness ==
    /\ pc = "search_inner"
    /\ learner.owner = <<"search", 1>>
    /\ conv_filters = <<1, 1>>
    /\ learner.conv1_filters = 1
    /\ learner.conv1_filters \notin np_random_randint(Conv1Low, Conv1High)
    /\ trials[1].pair[1] \in np_random_randint(Conv1Low, Conv1High)

\* a teacher module on which forward has never been called
FreshTeacher == [training |-> TRUE, num_batches_tracked |-> 0]

\* C18: every call of the teacher, in whichever cell it is made and however
\* many calls were made before it, returns what a teacher with the same weights
\* and no earlier call returns on the same inputs: the output is a function of
\* the weights and the inputs alone, and the target is the label input.
C18_TeacherForwardPure ==
    \A c \in hist.forwards :
        /\ c.out = TeacherForward(c.weights, c.z, c.one_hot, FreshTeacher)
        /\ c.out.target = c.one_hot

\* C18 witness: the training loop, the search and the visualization have each
\* called the teacher on the same weights and curriculum row, with different
\* numbers of calls before them
C18_Witness ==
    \E c \in hist.forwards, d \in hist.forwards, e \in hist.forwards :
        /\ c.by[1] = "train" /\ d.by[1] = "search" /\ e.by = <<"vis", 0>>
        /\ c.weights = d.weights /\ c.z = d.z
        /\ e.weights = d.weights /\ e.z = d.z
        /\ c.weights["fc1"] >= 1
        /\ c.n < d.n /\ d.n < e.n

\* what holds of an outer iteration whose validation batch cannot be fetched
C19_AbortedIteration ==
    /\ val_pos <= val_len
    /\ (it >= val_len => pc \in {"inner", "real_eval", "val_eval"} \/ TrainingAborted)
    /\ (TrainingAborted =>
          /\ it = val_len
          /\ val_pos = val_len
          /\ Count(hist.backward, it) = 0
          /\ Count(hist.step, it) = 0
          /\ \A x \in AllTensors : grad[x].none \/ it \notin grad[x].from
          /\ \A x \in ParamsToTrain(use_curriculum) : version[x] = it
          /\ ~report.train
          /\ i = -1 /\ trials = <<>>)

\* C19: when next(val_iterator) raises in an outer iteration, the run is over:
\* nothing is retried, no later outer iteration and no later cell starts, and
\* the failing iteration has neither called loss.backward() nor updated the
\* teacher; the iterator is never re-created, so it fails in iteration
\* len(val_loader).
C19_NoRetryNoRecovery == []C19_AbortedIteration /\ [][pc # "aborted"]_vars

\* C19 witness: the second iteration aborted after the first one updated the
\* teacher
C19_Witness ==
    /\ TrainingAborted
    /\ it = 1
    /\ hist.step = <<0>>
    /\ Len(trajectory) = inner_loop_iterations + 1

\* C15: the penalty is computed from the value a has before the update, the
\* loss function leaves a as it was, and the decayed average is computed once,
\* after the loss, from that same value of a and the variation the loss
\* returned.
C15_AverageReadBeforeUpdate ==
    /\ pl.a = InitialA
    /\ pl.updates = (IF pc = "pl_done" THEN 1 ELSE 0)
    /\ (pc = "pl_call" => pl.penalty_sq = NoValue /\ pl.new_a = NoValue)
    /\ (pc = "pl_update" => pl.new_a = NoValue)
    /\ (pc \in {"pl_update", "pl_done"} =>
          /\ pl.a_in_penalty = InitialA
          /\ pl.penalty_sq = PenaltySquared(pl.cur_grad, InitialA)
          /\ pl.cur_grad = GradWrtW(pl.generator, pl.random_images))
    /\ (pc = "pl_done" =>
          pl.new_a.num = InitialA * (DecayDen - DecayNum) + pl.variation * DecayNum)

\* C15 witness: the update has been computed after a loss whose penalty is not
\* the one the updated average would give
C15_Witness ==
    /\ pc = "pl_done"
    /\ pl.updates = 1
    /\ pl.variation # 0
    /\ pl.new_a.num # InitialA * DecayDen
    /\ pl.penalty_sq # 0

\* C16 as stated: the new average is a * (1 - decay) + m * decay with m the L2
\* norm of the gradient J_w^T y: m >= 0 and m * m is the sum of the squared
\* entries of cur_grad.
C16_AverageOfGradientNorm ==
    pc = "pl_done" =>
        LET m_times_num == pl.new_a.num - pl.a * (DecayDen - DecayNum)
        IN /\ m_times_num >= 0
           /\ m_times_num * m_times_num =
                 DecayNum * DecayNum * SumSeq([k \in 1 .. PlSize |-> pl.cur_grad[k] * pl.cur_grad[k]])

\* C20 as stated: for every batch size b >= 1 the call returns an image batch
\* of shape (b, 1, img_size, img_size) and the label batch it was given.
C20_ShapesForEveryBatch ==
    /\ pc # "raised"
    /\ (pc = "returned" =>
          shp.result = <<(<<shp.b, 1, shp.h.img_size, shp.h.img_size>>), shp.one_hot>>)

\* C20 amended: for every batch size b >= 2 the call returns an image batch of
\* shape (b, 1, img_size, img_size), whose channel count is the one the
\* Learner's first convolution takes, and the label batch it was given; for
\* b = 1 the teacher, which is in training mode, raises ValueError in bn_fc1.
C20_ShapesForBatchesOfTwoOrMore ==
    /\ (shp.b >= 2 => pc # "raised")
    /\ (shp.b >= 2 /\ pc = "returned" =>
          /\ shp.result = <<(<<shp.b, 1, shp.h.img_size, shp.h.img_size>>), shp.one_hot>>
          /\ shp.result[1][2] = learner_in_channels
          /\ shp.n = Len(TeacherLayers))
    /\ (shp.b = 1 => pc # "returned")
    /\ (shp.b = 1 /\ pc = "raised" =>
          shp.raised = "ValueError" /\ TeacherLayers[shp.n] = "bn_fc1")
    /\ (shp.b = 1 /\ shp.n >= 4 => pc = "raised")

\* C20 witness: a batch of more than one class and several samples has gone
\* through the teacher
C20_Witness ==
    /\ pc = "returned"
    /\ shp.b = ShapeBatchBound
    /\ shp.h.img_size >= 2
    /\ shp.result[1] = <<shp.b, 1, shp.h.img_size, shp.h.img_size>>
    /\ shp.result[2] = <<shp.b, shp.h.num_classes>>

\* C21: every optimizer_teacher.step() comes after exactly one loss.backward()
\* of its own outer iteration, which comes after that iteration's zero_grad, its
\* new student, its complete inner loop and its real-data loss; the gradient a
\* step applies stems from that one iteration and from no earlier one.
C21_StepAfterOneBackwardOfItsIteration ==
    /\ \A k \in 1 .. Len(hist.backward) : hist.backward[k] = k - 1
    /\ \A k \in 1 .. Len(hist.step) : hist.step[k] = hist.backward[k]
    /\ Len(hist.backward) = Len(hist.step) + (IF pc = "teacher_step" THEN 1 ELSE 0)
    /\ \A x \in AllTensors : grad[x].none \/ grad[x].from = {it}
    /\ (pc = "teacher_step" =>
          /\ Last(hist.backward) = it
          /\ Count(hist.backward, it) = 1
          /\ \A x \in AllTensors : ~grad[x].none <=> x \in loss.deps
          /\ loss.src = "real_data"
          /\ loss.owner = <<"train", it>>
          /\ loss.snap = inner_loop_iterations + 1
          /\ learner.owner = <<"train", it>>
          /\ trajectory[1] = InitialSnapshot(learner)
          /\ Len(trajectory) = inner_loop_iterations + 1
          /\ \A k \in 1 .. Len(trajectory) : trajectory[k].owner = <<"train", it>>
          /\ diffopt = [steps |-> inner_loop_iterations, owner |-> <<"train", it>>])

\* C21 witness: the second outer iteration is about to step with a gradient of
\* its own, after the first one stepped with its own
C21_Witness ==
    /\ pc = "teacher_step"
    /\ it = 1
    /\ hist.step = <<0>>
    /\ hist.backward = <<0, 1>>
    /\ \A x \in ParamsToTrain(use_curriculum) : grad[x].from = {1}

\* the teacher calls made for the current student
CallsOfCurrentStudent == {c \in hist.forwards : c.by = CurrentOwner}

\* the inner steps the current student has taken: all of them once its loop
\* has ended, none before the first student exists
StepsTaken ==
    IF pc \in {"inner", "search_inner"} THEN step
    ELSE IF CurrentOwner[2] < 0 THEN 0
    ELSE inner_loop_iterations

\* the leaves of the autodiff graph: tensors, the initial student, the batches;
\* the floats of inner_losses (loss.item()) are not among them
GraphLeaves ==
    AllTensors \cup {"learner_init", "noise", "label", "real_data"}

\* C22: the inner loop of every training iteration and of every search trial
\* makes exactly inner_loop_iterations steps, in increasing step order; with a
\* curriculum step t is fed curriculum[t]; in training every step appends one
\* loss, so inner_losses is inner_loop_iterations long when the loop has ended;
\* every student snapshot and loss depends on leaves of the autodiff
\* graph only, which the recorded floats are not.
C22_InnerLoopStepsAndLosses ==
    /\ step \in 0 .. inner_loop_iterations
    /\ LET calls == CallsOfCurrentStudent
       IN /\ Cardinality(calls) = StepsTaken
          /\ {c.step : c \in calls} = 0 .. (StepsTaken - 1)
          /\ \A c \in calls : \A d \in calls : c.step < d.step => c.n < d.n
    /\ \A c \in hist.forwards :
          IF use_curriculum
          THEN c.z[1] = "curriculum" /\ c.z[3] = c.step
          ELSE c.z = <<"randn", c.n>>
    /\ (pc \in TrainPcs /\ it >= 0 =>
          /\ Len(inner_losses) = step
          /\ (pc # "inner" => Len(inner_losses) = inner_loop_iterations))
    /\ (pc \notin TrainPcs => Len(inner_losses) = inner_loop_iterations)
    /\ \A k \in 1 .. Len(inner_losses) : inner_losses[k] = k - 1
    /\ \A k \in 1 .. Len(trajectory) : trajectory[k].deps \subseteq GraphLeaves
    /\ loss.deps \subseteq GraphLeaves
    /\ (trajectory # <<>> => Last(trajectory).t = step)

\* C22 witness: with a curriculum, a training student and a search student
\* have both ended their loops, the training one with all its losses recorded
C22_Witness ==
    /\ pc = "search_val"
    /\ use_curriculum
    /\ inner_loop_iterations >= 2
    /\ Len(inner_losses) = inner_loop_iterations
    /\ Cardinality(CallsOfCurrentStudent) = inner_loop_iterations
    /\ \E c \in hist.forwards :
          c.by = <<"train", 0>> /\ c.step = inner_loop_iterations - 1
                                /\ c.z[3] = inner_loop_iterations - 1

\* loss.backward() is called by this step of the notebook
BackwardCalled == hist'.backward # hist.backward

\* what loss.backward() differentiates: the loss of the student's last
\* snapshot on real_data, computed after the inner loop's last loss
C23_BackwardOfRealDataLoss ==
    BackwardCalled =>
        /\ loss.src = "real_data"
        /\ loss.owner = <<"train", it>>
        /\ loss.snap = inner_loop_iterations + 1
        /\ loss.deps = Last(trajectory).deps \cup {"real_data"}
        /\ Len(trajectory) = inner_loop_iterations + 1
        /\ val_pos = it + 1
        /\ \A x \in AllTensors :
              grad'[x] = IF x \in loss.deps THEN [none |-> FALSE, from |-> {it}] ELSE grad[x]

\* the accuracy evaluations between the real-data loss and loss.backward()
\* leave the loss and every gradient as they are
C23_AccuracyOnly ==
    (pc \in {"val_eval", "budget"} /\ (val_pos' # val_pos \/ accuracy' # accuracy \/ report' # report)) => (loss' = loss /\ grad' = grad /\ version' = version /\ trajectory' = trajectory)

\* C23: the loss back-propagated in an outer iteration is the loss of the final
\* student snapshot on the iteration's training batch, not the last inner-loop
\* loss; the validation batch and the test batches are evaluated for accuracy
\* only and leave the loss and the gradients untouched.
C23_RealDataLossBackpropagated ==
    [][C23_BackwardOfRealDataLoss /\ C23_AccuracyOnly]_vars

\* C23 witness: backward has run on the real-data loss after the validation
\* batch was evaluated, the last inner-loop loss being that of the snapshot before
C23_Witness ==
    /\ pc = "teacher_step"
    /\ val_pos = it + 1
    /\ loss.src = "real_data"
    /\ loss.snap = inner_loop_iterations + 1
    /\ Last(inner_losses) = inner_loop_iterations - 1
    /\ Last(hist.backward) = it
    /\ ~grad["fc1"].none

\* the training cell has ended, normally or by an exception
TrainLoopOver == pc \notin TrainPcs

\* the inner steps outer iteration k has run
InnerStepsOf(k) == Cardinality({c \in hist.forwards : c.by = <<"train", k>>})

\* at most outer_loop_iterations outer iterations, each with all its inner
\* steps, and none after the final report
C24_IterationsBounded ==
    /\ it + 1 <= outer_loop_iterations
    /\ it + 1 <= train_len
    /\ \A k \in 0 .. it :
          InnerStepsOf(k) = (IF k = it /\ pc = "inner" THEN step ELSE inner_loop_iterations)
    /\ \A c \in hist.forwards : c.by[2] \in 0 .. it
    /\ (report.train => TrainLoopOver /\ it = outer_loop_iterations - 1)
    /\ (TrainLoopOver /\ error = "none" =>
          it + 1 = (IF outer_loop_iterations <= train_len THEN outer_loop_iterations
                    ELSE train_len))

\* C24: for every outer_loop_iterations and every loader length the training
\* loop ends, after at most outer_loop_iterations outer iterations of exactly
\* inner_loop_iterations inner steps each, and no outer iteration starts after
\* the one that reports the final test accuracy.
C24_TrainingTerminates == []C24_IterationsBounded /\ <>TrainLoopOver

\* C24 witness: the loop has ended with its report while the loader still had
\* a batch to give
C24_Witness ==
    /\ TrainLoopOver
    /\ report.train
    /\ it + 1 < train_len
    /\ InnerStepsOf(it) = inner_loop_iterations

\* C25: the test accuracy of the final 'Best architecture' report is computed
\* with the student of the last trial, whose widths are the pair sampled last;
\* the report pairs it with filter_counts, the pair of the retained trial, so
\* the accuracy is that of the reported trial's student only when the last
\* trial is the retained one.
C25_TestAccuracyOfLastTrial ==
    (pc = "done") =>
        LET retained == RetainedTrial(trials)
        IN /\ report.search = filter_counts
           /\ report.search = trials[retained + 1].pair
           /\ report.search_tested.owner = <<"search", num_architectures - 1>>
           /\ report.search_tested.pair = trials[num_architectures].pair
           /\ report.search_tested.pair = conv_filters
           /\ (report.search_tested.owner = <<"search", retained>>
                 <=> retained = num_architectures - 1)
           /\ (retained = num_architectures - 1 =>
                 report.search_tested.pair = report.search)

\* C25 witness: the report pairs the widths retained from the first trial with
\* the test accuracy of the last trial's student, which has other widths
C25_Witness ==
    /\ pc = "done"
    /\ RetainedTrial(trials) = 0
    /\ num_architectures >= 2
    /\ report.search = trials[1].pair
    /\ report.search_tested.owner = <<"search", num_architectures - 1>>
    /\ report.search_tested.pair # report.search

\* the validation accuracies of the trials run so far
TrialAccuracies == {trials[k].accuracy : k \in 1 .. Len(trials)}

\* max(0, acc_0, ..., acc_i)
RunningMax == CHOOSE a \in TrialAccuracies \cup {0} : \A b \in TrialAccuracies \cup {0} : a >= b

\* the earliest trial that attained the running maximum
EarliestBest ==
    LET m == RunningMax
    IN CHOOSE k \in 1 .. Len(trials) :
          /\ trials[k].accuracy = m
          /\ \A j \in 1 .. (k - 1) : trials[j].accuracy < m

C28_FcWidthMatchesFeatures ==
    shp.img_size >= 10 =>
        /\ shp.learner.fc_in_features >= shp.learner.conv2_filters
        /\ shp.raised # "RuntimeError"
        /\ (shp.n >= 9 =>
              /\ shp.features = shp.learner.fc_in_features
              /\ shp.features = shp.learner.conv2_filters
                                   * ((((shp.img_size - 2) \div 2) - 2) \div 2)
                                   * ((((shp.img_size - 2) \div 2) - 2) \div 2))
        /\ (pc = "raised" =>
              shp.b = 1 /\ shp.raised = "ValueError" /\ LearnerLayers[shp.n] = "bn3")
        /\ (pc = "returned" => shp.b >= 2 /\ shp.result = <<shp.b, num_classes>>)

\* C28 witness: a batch has gone through a learner whose second pooling leaves
\* more than one pixel per channel
C28_Witness ==
    /\ pc = "returned"
    /\ shp.img_size = 14
    /\ shp.learner.conv1_filters = 3
    /\ shp.learner.conv2_filters = 2
    /\ shp.features = 8
    /\ shp.result = <<shp.b, num_classes>>

\* both strategies have been applied to the same layer, images and w
BothCalled == mc.done = {"forward", "forward_efficient"}

\* C13 as stated: for every layer and batch, forward and forward_efficient
\* return the same output, one image per sample.
C13_ForwardsAgree ==
    BothCalled =>
        /\ mc.out.error = "none"
        /\ mc.out_efficient = mc.out
        /\ mc.out.shape[1] = Len(mc.w)

\* on layers with in_channels = out_channels and 2 * padding = kernel_size - 1
\* the two strategies return the same output
ForwardsAgreeOnSquareSameLayers ==
    (BothCalled /\ mc.layer.in_channels = mc.layer.out_channels
                /\ 2 * mc.layer.padding = mc.layer.kernel_size - 1) =>
        mc.out.error = "none" /\ mc.out_efficient = mc.out

\* the shape forward documents for its output
ForwardShape ==
    <<Len(mc.w), mc.layer.out_channels,
      ImageSide + 2 * mc.layer.padding - mc.layer.kernel_size + 1,
      ImageSide + 2 * mc.layer.padding - mc.layer.kernel_size + 1>>

\* 2 * padding = kernel_size - 1: the convolution keeps the spatial size
SamePadding == 2 * mc.layer.padding = mc.layer.kernel_size - 1

\* C27 as stated: forward succeeds with shape (batch, out_channels,
\* H + 2p - k + 1, W + 2p - k + 1); forward_efficient returns a result of that
\* shape exactly when 2p = k - 1, and for every other (k, p) it raises.
C27_EfficientShapeIffSamePadding ==
    BothCalled =>
        /\ mc.out.error = "none"
        /\ mc.out.shape = ForwardShape
        /\ (SamePadding <=> (mc.out_efficient.error = "none"
                              /\ mc.out_efficient.shape = mc.out.shape))
        /\ (~SamePadding => mc.out_efficient.error = "RuntimeError")

\* on layers with in_channels = out_channels the statement of C27 holds
EfficientShapeIffSamePaddingOnSquareLayers ==
    (BothCalled /\ mc.layer.in_channels = mc.layer.out_channels) =>
        C27_EfficientShapeIffSamePadding

\* layers with in_channels # out_channels: forward_efficient raises whatever
\* the kernel size and padding are
EfficientRaisesOnOtherLayers ==
    (BothCalled /\ mc.layer.in_channels # mc.layer.out_channels) =>
        mc.out.error = "none" /\ mc.out_efficient.error = "RuntimeError"

\* a fraction with a positive denominator is positive
Positive(q) == q.den > 0 /\ q.num > 0

\* C14: in forward and in forward_efficient every demodulation denominator is
\* the square root of a positive number, the sum of squared modulated weights
\* plus eps, for every weight, style and sample, the all-zero style included.
C14_DenominatorsPositive ==
    /\ EpsNum > 0 /\ EpsDen > 0
    /\ ("forward" \in mc.done =>
          /\ Len(mc.radicands) = Len(mc.w)
          /\ \A j \in 1 .. Len(mc.radicands) :
                /\ Len(mc.radicands[j]) = Len(mc.layer.conv_weight.data)
                /\ \A n \in 1 .. Len(mc.radicands[j]) : Positive(mc.radicands[j][n]))
    /\ ("forward_efficient" \in mc.done =>
          /\ Len(mc.radicands_efficient) = Len(mc.w) * Len(mc.layer.conv_weight.data)
          /\ \A n \in 1 .. Len(mc.radicands_efficient) : Positive(mc.radicands_efficient[n]))

\* C14 witness: both strategies have demodulated a sample whose style is zero
\* in every channel, next to one whose style is not
C14_Witness ==
    /\ BothCalled
    /\ Len(mc.w) = 2
    /\ \A c \in 1 .. mc.layer.in_channels : StyleScale(mc.layer.lin, mc.w[1])[c] = 0
    /\ \E c \in 1 .. mc.layer.in_channels : StyleScale(mc.layer.lin, mc.w[2])[c] # 0
    /\ mc.radicands[1][1] = [num |-> EpsNum, den |-> EpsDen]
    /\ mc.radicands_efficient[1] = [num |-> EpsNum, den |-> EpsDen]
    /\ mc.radicands[2][1].num > EpsNum
====
